---- MODULE Spec2Model ----
(***************************************************************************)
(* A model of mssp_migrate_to_cc.py: the MSSP portal -> Cyber Controller   *)
(* migration script.  The script is sequential; pc is the position of the  *)
(* single thread of control and every action is one step of the script     *)
(* that performs (at most) one call to the outside world.  The answers of  *)
(* the outside world (HTTP replies of the MSSP portal, results returned by *)
(* the Vision client, the content of the snapshot file) are inputs.        *)
(*                                                                         *)
(* Python strings are TLA+ strings (Len, \o and SubSeq treat them as       *)
(* sequences of characters), Python lists are sequences, dicts are         *)
(* records.  The dict keys "Account Name", "Account OID", "New Role" are   *)
(* written Account_Name, Account_OID, New_Role.                            *)
(***************************************************************************)
EXTENDS Integers, Sequences, FiniteSets, TLC

VARIABLES
    mode,              \* entry point of the run: "main", "import", "export", "role"
    pc,                \* position of the thread of control
    args,              \* the argparse namespace
    session_id,        \* result of login()
    listing,           \* the portal's answer to GET /api/accounts/ ([status, reply])
    accounts,          \* build_structured_export: the filtered account list
    ai,                \* build_structured_export: index of the account in work
    assets,            \* build_structured_export: assets of the account in work
    all_accounts_info, \* build_structured_export: the entries built so far
    config,            \* the structured export document handed to the import
    files,             \* snapshot files written by save_data_to_json_file
    invoked,           \* number of times import_mssp_config was entered
    new_user_password, \* import_mssp_config: parameter
    dry_run,           \* import_mssp_config: parameter
    gi,                \* import_mssp_config: index of `group` in config
    ui,                \* import_mssp_config: index of `user` in group["Users"]
    cc_group_name,     \* import_mssp_config: local of the loop body
    calls,             \* every call made to the outside world, in order
    exit,              \* [exited, code]: the process exit status
    current_roles,     \* select_new_role: argument
    new_role           \* select_new_role: result

vars == << mode, pc, args, session_id, listing, accounts, ai, assets,
           all_accounts_info, config, files, invoked, new_user_password,
           dry_run, gi, ui, cc_group_name, calls, exit, current_roles,
           new_role >>

exportVars == << listing, accounts, ai, assets, all_accounts_info >>
importVars == << new_user_password, dry_run, gi, ui, cc_group_name >>
roleVars   == << current_roles, new_role >>

----------------------------------------------------------------------------
(* Values *)

\* Python's None: a value that is none of the strings used below.
None == "<None>"

\* bool(x) of an optional string: None and "" are falsy.
Truthy(x) == x # None /\ x # ""

Min(a, b) == IF a <= b THEN a ELSE b

\* The default of import_mssp_config's new_user_password parameter.
DefaultPassword == "P@ssw0rd1!"

\* The slice bound of cc_group_name.
GroupNameLimit == 31

\* exit(code), parser.error (code 2), and the interpreter's exit after an
\* uncaught exception (code 1).
Exit(code) ==
    /\ pc' = "done"
    /\ exit' = [exited |-> TRUE, code |-> code]

\* An exception no function catches: it ends the script, or reaches the
\* caller of the function that is run alone.
Uncaught ==
    IF mode = "main" THEN Exit(1) ELSE pc' = "raised" /\ exit' = exit

----------------------------------------------------------------------------
(* import_mssp_config *)

\* s[:n]
Prefix(s, n) == SubSeq(s, 1, Min(n, Len(s)))

\* cc_group_name without the [:31] slice.
CcGroupName_NoTruncation(group) ==
    group.Account_Name \o "_" \o group.Account_OID

\* cc_group_name cut one character short of the limit.
CcGroupName_OneShort(group) ==
    Prefix(group.Account_Name \o "_" \o group.Account_OID, GroupNameLimit - 1)

\* (group["Account Name"] + "_" + group["Account OID"])[:31]
CcGroupName(group) ==
    Prefix(group.Account_Name \o "_" \o group.Account_OID, GroupNameLimit)

\* Leaving import_mssp_config: the script has nothing after it.
Finish ==
    /\ pc' = "done"
    /\ exit' = IF mode = "main" THEN [exited |-> TRUE, code |-> 0] ELSE exit

\* The `for group in config` loop moves to the entry after gi, or ends.
NextGroup ==
    /\ gi' = gi + 1
    /\ ui' = 0
    /\ IF gi + 1 <= Len(config)
          THEN pc' = "create_cc_group" /\ exit' = exit
          ELSE Finish

\* The loop entered although the login failed.
GroupsToImport_IgnoresLogin(ok, document) == document

\* if vision.login(): for group in config: the entries the loop runs over.
GroupsToImport(ok, document) == IF ok THEN document ELSE << >>

\* The users attached although the group creation failed.
UsersToAdd_IgnoresResult(ok, group) == group.Users

\* if vision.create_cc_group(...): for user in group["Users"]: the users the
\* inner loop runs over.
UsersToAdd(ok, group) == IF ok THEN group.Users ELSE << >>

\* The inner loop left at the first user call that returns failure.
MoreUsers_StopsAtFailure(ok, group, i) == ok /\ i + 1 <= Len(group.Users)

\* for user in group["Users"]: the loop goes on after user i, whatever
\* add_user_to_group returned.
MoreUsers(ok, group, i) == i + 1 <= Len(group.Users)

\* if vision.login():
ImportLogin ==
    /\ pc = "import_mssp_config"
    /\ \E ok \in BOOLEAN :
          /\ calls' = Append(calls, [sys |-> "cc", op |-> "login", result |-> ok])
          /\ IF Len(GroupsToImport(ok, config)) > 0
                THEN /\ pc' = "create_cc_group"
                     /\ gi' = 1
                     /\ exit' = exit
                ELSE /\ gi' = gi
                     /\ Finish
    /\ UNCHANGED << mode, args, session_id, exportVars, config, files, invoked,
                    new_user_password, dry_run, ui, cc_group_name, roleVars >>

\* cc_group_name = ...; poList = group["Assets"];
\* if vision.create_cc_group(cc_group_name, poList, dry_run=dry_run): ... else: log
CreateGroup ==
    /\ pc = "create_cc_group"
    /\ LET group == config[gi]
           name  == CcGroupName(group)
       IN  /\ cc_group_name' = name
           /\ \E ok \in BOOLEAN :
                 /\ calls' = Append(calls,
                        [sys |-> "cc", op |-> "create_cc_group", entry |-> gi,
                         name |-> name, poList |-> group.Assets,
                         dry_run |-> dry_run, result |-> ok])
                 /\ IF Len(UsersToAdd(ok, group)) > 0
                       THEN /\ pc' = "add_user_to_group"
                            /\ ui' = 1
                            /\ gi' = gi
                            /\ exit' = exit
                       ELSE NextGroup
    /\ UNCHANGED << mode, args, session_id, exportVars, config, files, invoked,
                    new_user_password, dry_run, roleVars >>

\* vision.add_user_to_group(user, cc_group_name, password=new_user_password,
\*                          dry_run=dry_run)          (the result is dropped)
AddUser ==
    /\ pc = "add_user_to_group"
    /\ LET group == config[gi]
           user  == group.Users[ui]
       IN  \E ok \in BOOLEAN :
              /\ calls' = Append(calls,
                     [sys |-> "cc", op |-> "add_user_to_group", entry |-> gi,
                      index |-> ui, user |-> user, group |-> cc_group_name,
                      password |-> new_user_password, dry_run |-> dry_run,
                      result |-> ok])
              /\ IF MoreUsers(ok, group, ui)
                    THEN /\ ui' = ui + 1
                         /\ gi' = gi
                         /\ pc' = pc
                         /\ exit' = exit
                    ELSE NextGroup
    /\ UNCHANGED << mode, args, session_id, exportVars, config, files, invoked,
                    new_user_password, dry_run, cc_group_name, roleVars >>

----------------------------------------------------------------------------
(* Record filters and mappers *)

Range(s) == { s[i] : i \in 1..Len(s) }

\* [account for account in accounts if account.get('_type') == account_type]
RECURSIVE filter_accounts_by_type(_, _)
filter_accounts_by_type(accs, account_type) ==
    IF accs = << >> THEN << >>
    ELSE IF Head(accs).type = account_type
            THEN << Head(accs) >> \o filter_accounts_by_type(Tail(accs), account_type)
            ELSE filter_accounts_by_type(Tail(accs), account_type)

\* [user for user in users if user.get('role') == role]
RECURSIVE filter_users_by_role(_, _)
filter_users_by_role(users, role) ==
    IF users = << >> THEN << >>
    ELSE IF Head(users).role = role
            THEN << Head(users) >> \o filter_users_by_role(Tail(users), role)
            ELSE filter_users_by_role(Tail(users), role)

new_role_mapping ==
    [ userAdmin     |-> "MSSP_PORTAL_ADMIN",
      basicUser     |-> "MSSP_PORTAL_USER",
      dashboardUser |-> "MSSP_PORTAL_VIEWER",
      userViewer    |-> "MSSP_PORTAL_VIEWER" ]

\* The scan order with the two highest roles exchanged.
role_priority_BasicFirst ==
    << "basicUser", "userAdmin", "dashboardUser", "userViewer" >>

role_priority == << "userAdmin", "basicUser", "dashboardUser", "userViewer" >>

\* for role in role_priority: if role in current_roles: return mapping[role]
\* return None
RECURSIVE ScanRoles(_, _)
ScanRoles(i, roles) ==
    IF i > Len(role_priority) THEN None
    ELSE IF role_priority[i] \in Range(roles)
            THEN new_role_mapping[role_priority[i]]
            ELSE ScanRoles(i + 1, roles)

select_new_role(roles) == ScanRoles(1, roles)

\* sep.join(s)
RECURSIVE Join(_, _)
Join(sep, s) ==
    IF s = << >> THEN ""
    ELSE IF Len(s) = 1 THEN s[1]
         ELSE s[1] \o sep \o Join(sep, Tail(s))

\* dict.get(key, default) of a key whose absence is written None
GetOr(x, default) == IF x = None THEN default ELSE x

\* One user_info of build_users_info.  The fields copied through unchanged
\* (Name, Email, Auth Type, Notes, Allowed IP Address) are not modelled.
UserInfo(user) ==
    [ Username     |-> GetOr(user.username, "N/A"),
      Role         |-> GetOr(user.role, "N/A"),
      Role_Current |-> IF user.roles # << >> THEN Join(", ", user.roles)
                                             ELSE "None",
      New_Role     |-> select_new_role(user.roles) ]

build_users_info(filtered_users) ==
    [ i \in 1..Len(filtered_users) |-> UserInfo(filtered_users[i]) ]

\* assets_info_list.append(", ".join(asset.get('policies', [])))
build_assets_info(as) ==
    [ i \in 1..Len(as) |-> Join(", ", as[i].policies) ]

----------------------------------------------------------------------------
(* Inputs of the export: what the MSSP portal answers *)

\* All sequences over S of length at most n.
SeqsUpTo(S, n) == UNION { [1..k -> S] : k \in 0..n }

\* Accounts of a listing (build_structured_export), in main() and alone.
MainMaxAccounts == 1
ExpMaxAccounts == 3

\* An account of the listing: '_type' (None: the key is missing), 'name'
\* and '_id'.'_oid'.
AccountRecords ==
    { [type |-> t, name |-> n.name, oid |-> n.oid] :
        t \in { "CustomerAccount", "customeraccount", None },
        n \in { [name |-> "Acme", oid |-> "oid1"],
                [name |-> None, oid |-> "oid2"] } }

AccountsResponses ==
    { [status |-> st, reply |-> r] :
        st \in { 200, 500 },
        r \in SeqsUpTo(AccountRecords,
                       IF mode = "main" THEN MainMaxAccounts ELSE ExpMaxAccounts) }

AssetsResponses ==
    { [status |-> 200, reply |-> << [policies |-> << "p1", "p2" >>] >>],
      [status |-> 200, reply |-> << >>],
      [status |-> 500, reply |-> << [policies |-> << "p1" >>] >>] }

SourceUser(n, r, rs) == [username |-> n, role |-> r, roles |-> rs]

UsersResponses ==
    LET alice == SourceUser("alice", "user", << "basicUser" >>)
        bob   == SourceUser("bob", "operator", << "userAdmin" >>)
        carol == SourceUser(None, "user", << >>)
    IN  { [status |-> 200, reply |-> << bob, alice, carol >>],
          [status |-> 200, reply |-> << bob >>],
          [status |-> 200, reply |-> << >>],
          [status |-> 500, reply |-> << alice >>] }

\* if response.status_code == 200: return response.json().get('reply', [])
\* return []
ReplyOf(response) == IF response.status = 200 THEN response.reply ELSE << >>

----------------------------------------------------------------------------
(* build_structured_export *)

\* requests.get raises (the fetch functions have no try): the call was made
\* and nothing of the export survives it.
FetchRaises(o) ==
    /\ calls' = Append(calls, [sys |-> "mssp", op |-> o, raised |-> TRUE])
    /\ Uncaught
    /\ UNCHANGED << listing, accounts, ai, assets, all_accounts_info >>

\* accounts = filter_accounts_by_type(fetch_all_accounts(...), 'CustomerAccount')
FetchAllAccounts ==
    /\ pc = "build_structured_export"
    /\ \/ \E response \in AccountsResponses :
             LET filtered == filter_accounts_by_type(ReplyOf(response), "CustomerAccount")
             IN  /\ listing' = response
                 /\ calls' = Append(calls, [sys |-> "mssp", op |-> "fetch_all_accounts",
                                            raised |-> FALSE,
                                            status |-> response.status])
                 /\ accounts' = filtered
                 /\ all_accounts_info' = << >>
                 /\ assets' = assets
                 /\ exit' = exit
                 /\ IF Len(filtered) > 0
                       THEN pc' = "fetch_assets_for_account" /\ ai' = 1
                       ELSE pc' = "export_returned" /\ ai' = ai
       \/ FetchRaises("fetch_all_accounts")
    /\ UNCHANGED << mode, args, session_id, config, files, invoked, importVars,
                    roleVars >>

\* assets = fetch_assets_for_account(session_id, account_id, mssp_address)
FetchAssets ==
    /\ pc = "fetch_assets_for_account"
    /\ \/ \E response \in AssetsResponses :
             /\ assets' = ReplyOf(response)
             /\ calls' = Append(calls, [sys |-> "mssp", op |-> "fetch_assets_for_account",
                                        raised |-> FALSE,
                                        id |-> accounts[ai].oid, account |-> ai,
                                        status |-> response.status])
             /\ pc' = "fetch_users_for_account"
             /\ UNCHANGED << listing, accounts, ai, all_accounts_info, exit >>
       \/ FetchRaises("fetch_assets_for_account")
    /\ UNCHANGED << mode, args, session_id, config, files, invoked, importVars,
                    roleVars >>

\* The entry appended for `account`, given the fetched assets and users.
AccountDetails(account, as, users) ==
    [ Account_Name |-> GetOr(account.name, "N/A"),
      Type         |-> GetOr(account.type, "N/A"),
      Account_OID  |-> account.oid,
      Assets       |-> build_assets_info(as),
      Users        |-> build_users_info(users) ]

\* An account without importable users left out of the export.
WithAccount_SkipsEmpty(info, account, as, users) ==
    IF users = << >> THEN info
    ELSE Append(info, AccountDetails(account, as, users))

\* all_accounts_info.append(account_details)
WithAccount(info, account, as, users) ==
    Append(info, AccountDetails(account, as, users))

\* users = filter_users_by_role(fetch_users_for_account(...), 'user'); ...
\* all_accounts_info.append(account_details)
FetchUsers ==
    /\ pc = "fetch_users_for_account"
    /\ \/ \E response \in UsersResponses :
             LET users == filter_users_by_role(ReplyOf(response), "user")
             IN  /\ all_accounts_info' =
                       WithAccount(all_accounts_info, accounts[ai], assets, users)
                 /\ calls' = Append(calls, [sys |-> "mssp", op |-> "fetch_users_for_account",
                                            raised |-> FALSE,
                                            id |-> accounts[ai].oid, account |-> ai,
                                            status |-> response.status,
                                            matching |-> Len(users)])
                 /\ IF ai + 1 <= Len(accounts)
                       THEN pc' = "fetch_assets_for_account" /\ ai' = ai + 1
                       ELSE pc' = "export_returned" /\ ai' = ai
                 /\ UNCHANGED << listing, accounts, assets, exit >>
       \/ FetchRaises("fetch_users_for_account")
    /\ UNCHANGED << mode, args, session_id, config, files, invoked, importVars,
                    roleVars >>

----------------------------------------------------------------------------
(* The script: __main__ *)

\* An option given on the command line holds "" or a value; one not given
\* holds None (argparse's default).
OptionValues(v) == { None, "", v }

ArgSpace ==
    [ mssp_address          : OptionValues("10.0.0.1"),
      mssp_username         : OptionValues("admin"),
      mssp_password         : OptionValues("secret"),
      cc_address            : OptionValues("10.0.0.2"),
      cc_username           : OptionValues("radware"),
      cc_password           : OptionValues("radware1"),
      export_file           : OptionValues("export"),
      import_from_file      : BOOLEAN,
      config_file           : OptionValues("export.json"),
      dry_run               : BOOLEAN,
      initial_user_password : OptionValues("Ch@ngeMe1") ]

NoArgs ==
    [ mssp_address |-> None, mssp_username |-> None, mssp_password |-> None,
      cc_address |-> None, cc_username |-> None, cc_password |-> None,
      export_file |-> None, import_from_file |-> FALSE, config_file |-> None,
      dry_run |-> FALSE, initial_user_password |-> None ]

\* The --config-file check left out.
ConfigFileMissing_Never(a) == FALSE

\* if not args.config_file:
ConfigFileMissing(a) == ~Truthy(a.config_file)

\* if not all([args.mssp_address, args.mssp_username, args.mssp_password]):
MsspArgsMissing(a) ==
    ~(Truthy(a.mssp_address) /\ Truthy(a.mssp_username) /\ Truthy(a.mssp_password))

\* if not args.import_from_file: if not all([...]): parser.error(...)
\* else: if not args.config_file: exit(1)
Start ==
    /\ pc = "start"
    /\ IF ~args.import_from_file
          THEN IF MsspArgsMissing(args)
                  THEN Exit(2)
                  ELSE pc' = "login" /\ exit' = exit
          ELSE IF ConfigFileMissing(args)
                  THEN Exit(1)
                  ELSE pc' = "load_config" /\ exit' = exit
    /\ UNCHANGED << mode, args, session_id, exportVars, config, files, invoked,
                    importVars, calls, roleVars >>

\* What requests.post does in login(): it raises a RequestException, or it
\* returns a response with a status code and (maybe) a sessionid cookie.
LoginResponses ==
    { [raised |-> TRUE,  status_code |-> 0,   sessionid |-> None],
      [raised |-> FALSE, status_code |-> 200, sessionid |-> "s3ss10n"],
      [raised |-> FALSE, status_code |-> 200, sessionid |-> None],
      [raised |-> FALSE, status_code |-> 200, sessionid |-> ""],
      [raised |-> FALSE, status_code |-> 401, sessionid |-> None],
      [raised |-> FALSE, status_code |-> 500, sessionid |-> "s3ss10n"] }

\* login() without the status check: the cookie decides alone.
login_IgnoresStatus(response) ==
    IF response.raised THEN None
    ELSE IF Truthy(response.sessionid) THEN response.sessionid ELSE None

\* The value login() returns.
login(response) ==
    IF response.raised THEN None
    ELSE IF response.status_code = 200
            THEN IF Truthy(response.sessionid) THEN response.sessionid ELSE None
            ELSE None

\* session_id = login(...); if session_id: ... else: exit(1)
MsspLogin ==
    /\ pc = "login"
    /\ \E response \in LoginResponses :
          /\ calls' = Append(calls, [sys |-> "mssp", op |-> "login",
                                     raised |-> response.raised,
                                     status |-> response.status_code,
                                     sessionid |-> response.sessionid])
          /\ session_id' = login(response)
          /\ IF Truthy(login(response))
                THEN pc' = "build_structured_export" /\ exit' = exit
                ELSE Exit(1)
    /\ UNCHANGED << mode, args, exportVars, config, files, invoked, importVars,
                    roleVars >>

\* if args.export_file: save_data_to_json_file(structured_export, args.export_file)
\* config = structured_export
AfterExport ==
    /\ pc = "export_returned"
    /\ mode = "main"
    /\ files' = IF Truthy(args.export_file)
                   THEN Append(files, [base_filename |-> args.export_file,
                                       data |-> all_accounts_info])
                   ELSE files
    /\ config' = all_accounts_info
    /\ pc' = "cc_check"
    /\ UNCHANGED << mode, args, session_id, exportVars, invoked, importVars,
                    calls, exit, roleVars >>

\* Users of a document entry, as build_users_info writes them.
DocUser(n) ==
    [ Username |-> n, Role |-> "user", Role_Current |-> "basicUser",
      New_Role |-> "MSSP_PORTAL_USER" ]

UserNames == << "alice", "bob", "carol", "dave", "erin" >>

\* The list of the first k users.
DocUsers(k) == [ i \in 1..k |-> DocUser(UserNames[i]) ]

DocEntry(n, o, k) ==
    [ Account_Name |-> n, Type |-> "CustomerAccount", Account_OID |-> o,
      Assets |-> << "p1, p2" >>, Users |-> DocUsers(k) ]

\* Entries and users of a snapshot file read by main().
MainMaxEntries == 1
MainMaxUsers == 1

\* What load_config finds in the file: a document, or nothing it can parse
\* (open or json.load raises, and the uncaught exception ends the process
\* with status 1).
FileContents ==
    { [parsed |-> TRUE, document |-> d] :
        d \in SeqsUpTo({ DocEntry("Acme", "oid1", k) : k \in 0..MainMaxUsers },
                       MainMaxEntries) }
    \cup { [parsed |-> FALSE, document |-> << >>] }

\* config = load_config(args.config_file)
LoadConfig ==
    /\ pc = "load_config"
    /\ \E content \in FileContents :
          IF ~content.parsed
             THEN Exit(1) /\ config' = config
             ELSE config' = content.document /\ pc' = "cc_check" /\ exit' = exit
    /\ UNCHANGED << mode, args, session_id, exportVars, files, invoked,
                    importVars, calls, roleVars >>

\* if args.cc_address and args.cc_username and args.cc_password:
CcArgsGiven(a) ==
    Truthy(a.cc_address) /\ Truthy(a.cc_username) /\ Truthy(a.cc_password)

\* The import started whether or not --export-file was given.
ImportWanted_IgnoresExportFile(a) == CcArgsGiven(a)

\* The two conditions in front of the import_mssp_config call.
ImportWanted(a) == CcArgsGiven(a) /\ ~Truthy(a.export_file)

\* if args.cc_address and args.cc_username and args.cc_password:
\*     vision = Vision(...)
\*     if not args.export_file: import_mssp_config(vision, config, ...)
\* elif args.dry_run: logging.info("Warning: ...")
CcCheck ==
    /\ pc = "cc_check"
    /\ IF ImportWanted(args)
          THEN /\ pc' = "import_mssp_config"
               /\ invoked' = invoked + 1
               /\ new_user_password' =
                     IF ~Truthy(args.initial_user_password)
                        THEN DefaultPassword
                        ELSE args.initial_user_password
               /\ dry_run' = args.dry_run
               /\ exit' = exit
          ELSE /\ Exit(0)
               /\ UNCHANGED << invoked, new_user_password, dry_run >>
    /\ UNCHANGED << mode, args, session_id, exportVars, config, files, gi, ui,
                    cc_group_name, calls, roleVars >>

----------------------------------------------------------------------------
(* select_new_role called alone *)

MaxRoles == 3

RoleNames == { "userAdmin", "basicUser", "dashboardUser", "userViewer", "operator" }

SelectNewRole ==
    /\ pc = "select_new_role"
    /\ new_role' = select_new_role(current_roles)
    /\ pc' = "done"
    /\ UNCHANGED << mode, args, session_id, exportVars, config, files, invoked,
                    importVars, calls, exit, current_roles >>

----------------------------------------------------------------------------
(* import_mssp_config called alone: its documents *)

ImpMaxEntries == 2
ImpMaxUsers == 2

\* Account names and OIDs around the 31 character limit, one user each.
NamedEntries ==
    { DocEntry(p[1], p[2], 1) :
        p \in { << "Acme", "oid2" >>,
                << "Acme_x", "oid1" >>,
                << "Acme", "x_oid1" >>,
                << "CustomerNameOfLength0024", "abc123" >>,
                << "CustomerNameOfLength0024", "abc124" >>,
                << "CustomerNameOfLength00025", "abc123" >>,
                << "CustomerNameOfLength00025", "abc124" >>,
                << "VeryLongCustomerNameExceedingLimit", "abc123" >> } }

\* An account with every number of users.
SizedEntries == { DocEntry("Acme", "oid1", k) : k \in 0..ImpMaxUsers }

ImportDocs == SeqsUpTo(NamedEntries \cup SizedEntries, ImpMaxEntries)

----------------------------------------------------------------------------
(* Specifications *)

\* python mssp_migrate_to_cc.py <args>
Init ==
    /\ mode = "main"
    /\ pc = "start"
    /\ args \in ArgSpace
    /\ session_id = None
    /\ listing = [status |-> 0, reply |-> << >>]
    /\ accounts = << >>
    /\ ai = 0
    /\ assets = << >>
    /\ all_accounts_info = << >>
    /\ config = << >>
    /\ files = << >>
    /\ invoked = 0
    /\ new_user_password = DefaultPassword
    /\ dry_run = FALSE
    /\ gi = 0
    /\ ui = 0
    /\ cc_group_name = ""
    /\ calls = << >>
    /\ exit = [exited |-> FALSE, code |-> 0]
    /\ current_roles = << >>
    /\ new_role = None

Next ==
    \/ Start
    \/ MsspLogin
    \/ FetchAllAccounts
    \/ FetchAssets
    \/ FetchUsers
    \/ AfterExport
    \/ LoadConfig
    \/ CcCheck
    \/ ImportLogin
    \/ CreateGroup
    \/ AddUser

Spec == Init /\ [][Next]_vars

\* import_mssp_config(vision, config, new_user_password, dry_run)
InitImport ==
    /\ mode = "import"
    /\ pc = "import_mssp_config"
    /\ args = NoArgs
    /\ session_id = None
    /\ listing = [status |-> 0, reply |-> << >>]
    /\ accounts = << >>
    /\ ai = 0
    /\ assets = << >>
    /\ all_accounts_info = << >>
    /\ config \in ImportDocs
    /\ files = << >>
    /\ invoked = 1
    /\ new_user_password \in { DefaultPassword, "Ch@ngeMe1" }
    /\ dry_run \in BOOLEAN
    /\ gi = 0
    /\ ui = 0
    /\ cc_group_name = ""
    /\ calls = << >>
    /\ exit = [exited |-> FALSE, code |-> 0]
    /\ current_roles = << >>
    /\ new_role = None

NextImport ==
    \/ ImportLogin
    \/ CreateGroup
    \/ AddUser

SpecImport == InitImport /\ [][NextImport]_vars

\* build_structured_export(session_id, mssp_address)
InitExport ==
    /\ mode = "export"
    /\ pc = "build_structured_export"
    /\ args = NoArgs
    /\ session_id = "s3ss10n"
    /\ listing = [status |-> 0, reply |-> << >>]
    /\ accounts = << >>
    /\ ai = 0
    /\ assets = << >>
    /\ all_accounts_info = << >>
    /\ config = << >>
    /\ files = << >>
    /\ invoked = 0
    /\ new_user_password = DefaultPassword
    /\ dry_run = FALSE
    /\ gi = 0
    /\ ui = 0
    /\ cc_group_name = ""
    /\ calls = << >>
    /\ exit = [exited |-> FALSE, code |-> 0]
    /\ current_roles = << >>
    /\ new_role = None

NextExport ==
    \/ FetchAllAccounts
    \/ FetchAssets
    \/ FetchUsers

SpecExport == InitExport /\ [][NextExport]_vars

\* select_new_role(current_roles)
InitRole ==
    /\ mode = "role"
    /\ pc = "select_new_role"
    /\ args = NoArgs
    /\ session_id = None
    /\ listing = [status |-> 0, reply |-> << >>]
    /\ accounts = << >>
    /\ ai = 0
    /\ assets = << >>
    /\ all_accounts_info = << >>
    /\ config = << >>
    /\ files = << >>
    /\ invoked = 0
    /\ new_user_password = DefaultPassword
    /\ dry_run = FALSE
    /\ gi = 0
    /\ ui = 0
    /\ cc_group_name = ""
    /\ calls = << >>
    /\ exit = [exited |-> FALSE, code |-> 0]
    /\ current_roles \in SeqsUpTo(RoleNames, MaxRoles)
    /\ new_role = None

NextRole == SelectNewRole

SpecRole == InitRole /\ [][NextRole]_vars

----------------------------------------------------------------------------
(* Reading the log of calls *)

IsCc(c, o) == c.sys = "cc" /\ c.op = o
IsMssp(c, o) == c.sys = "mssp" /\ c.op = o

CcCallIndices == { j \in DOMAIN calls : calls[j].sys = "cc" }
MsspCallIndices == { j \in DOMAIN calls : calls[j].sys = "mssp" }
CreateIndices == { j \in DOMAIN calls : IsCc(calls[j], "create_cc_group") }
AddIndices == { j \in DOMAIN calls : IsCc(calls[j], "add_user_to_group") }
CcLoginIndices == { j \in DOMAIN calls : IsCc(calls[j], "login") }

\* The create_cc_group calls, in the order they were made.
Creates == SelectSeq(calls, LAMBDA c : IsCc(c, "create_cc_group"))

\* The destination login was called and answered success / failure.
CcLoginOk == \E j \in CcLoginIndices : calls[j].result
CcLoginFailed == \E j \in CcLoginIndices : ~calls[j].result

\* Account Name + '_' + Account OID of entry e of the document.
FullName(e) == config[e].Account_Name \o "_" \o config[e].Account_OID

----------------------------------------------------------------------------
(* C1 *)

\* C1: after a successful destination login, when import_mssp_config has
\* returned, create_cc_group has been requested exactly once for every entry
\* of the document, in document order, whatever the earlier results were; and
\* at no time has add_user_to_group been requested for an entry whose
\* create_cc_group returned failure.
C1_FailureIsolatedPerAccount ==
    /\ \A j \in CreateIndices :
          ~calls[j].result =>
             \A k \in AddIndices : calls[k].entry # calls[j].entry
    /\ (pc = "done" /\ CcLoginOk) =>
          /\ Len(Creates) = Len(config)
          /\ \A e \in 1..Len(config) :
                /\ Creates[e].entry = e
                /\ Creates[e].poList = config[e].Assets

\* A run where the first account's group creation failed, that account has
\* users, and the second account was created and got its users.
C1_Witness ==
    /\ pc = "done"
    /\ Len(config) >= 2
    /\ Len(config[1].Users) > 0
    /\ Len(Creates) = 2
    /\ ~Creates[1].result
    /\ Creates[2].result
    /\ \E k \in AddIndices : calls[k].entry = 2

----------------------------------------------------------------------------
(* C2 *)

\* C2: import_mssp_config calls the destination login exactly once, before
\* any other destination call; if the login fails the import ends with no
\* create_cc_group and no add_user_to_group call, for any document.
C2_LoginOnceAndFatal ==
    /\ Cardinality(CcLoginIndices) <= 1
    /\ CcCallIndices # {} =>
          \E j \in CcLoginIndices : \A k \in CcCallIndices : j <= k
    /\ (invoked > 0 /\ pc # "import_mssp_config") =>
          Cardinality(CcLoginIndices) = 1
    /\ CcLoginFailed =>
          /\ pc = "done"
          /\ CreateIndices = {}
          /\ AddIndices = {}

\* A failed login in front of a document that has an account with users.
C2_Witness ==
    /\ pc = "done"
    /\ CcLoginFailed
    /\ Len(config) > 0
    /\ Len(config[1].Users) > 0

----------------------------------------------------------------------------
(* C8 *)

\* C8: the group name of every create_cc_group call is the first
\* min(31, length) characters of Account Name + '_' + Account OID of its
\* entry: never longer than 31 characters, the whole concatenation when that
\* is 31 characters or shorter; and every add_user_to_group call of the entry
\* carries exactly the name passed to the entry's create_cc_group call.
C8_GroupNameTruncatedTo31 ==
    /\ \A j \in CreateIndices :
          LET full == FullName(calls[j].entry)
              name == calls[j].name
          IN  /\ Len(name) <= 31
              /\ Len(full) <= 31 => name = full
              /\ Len(full) > 31 => Len(name) = 31 /\ name = SubSeq(full, 1, 31)
    /\ \A k \in AddIndices :
          \E j \in CreateIndices :
             /\ j < k
             /\ calls[j].entry = calls[k].entry
             /\ calls[j].name = calls[k].group

\* A user attached to the group of an account whose concatenated name is
\* longer than 31 characters, after one whose name is exactly 31 long.
C8_Witness ==
    /\ \E k \in AddIndices :
          /\ Len(FullName(calls[k].entry)) > 31
          /\ Len(calls[k].group) = 31
    /\ \E j \in CreateIndices :
          /\ Len(FullName(calls[j].entry)) = 31
          /\ calls[j].name = FullName(calls[j].entry)

----------------------------------------------------------------------------
(* C9 *)

\* The calls after position j are the add_user_to_group calls of entry e, one
\* for each user in document order, and then no further call for a user of e.
UsersFollow(j, e) ==
    LET n == Len(config[e].Users)
    IN  /\ j + n <= Len(calls)
        /\ \A i \in 1..n :
              LET c == calls[j + i]
              IN  /\ IsCc(c, "add_user_to_group")
                  /\ c.entry = e
                  /\ c.index = i
                  /\ c.user = config[e].Users[i]
                  /\ c.password = new_user_password
                  /\ c.dry_run = calls[j].dry_run
        /\ { k \in AddIndices : calls[k].entry = e } = (j + 1)..(j + n)
        /\ j + n < Len(calls) =>
              /\ IsCc(calls[j + n + 1], "create_cc_group")
              /\ calls[j + n + 1].entry = e + 1

\* C9: when import_mssp_config has returned, every entry whose
\* create_cc_group call succeeded got exactly one add_user_to_group call for
\* each of its users, in document order, right after its group creation and
\* before the next entry's, each with the run's password and the dry-run
\* flag of the group call, whatever the user calls returned.
C9_EveryUserOncePerCreatedGroup ==
    pc = "done" =>
       \A j \in CreateIndices :
          calls[j].result => UsersFollow(j, calls[j].entry)

\* A returned run in which an account with two users or more, not the last
\* of the document, had its first user call answered failure and its second
\* user call made all the same.
C9_Witness ==
    /\ pc = "done"
    /\ \E j \in CreateIndices :
          /\ calls[j].result
          /\ Len(config[calls[j].entry].Users) >= 2
          /\ ~calls[j + 1].result
          /\ IsCc(calls[j + 2], "add_user_to_group")
          /\ calls[j].entry < Len(config)

----------------------------------------------------------------------------
(* C10 *)

\* C10 as claimed: two entries with different Account OIDs never receive the
\* same destination group name.
C10_AsClaimed ==
    \A j, k \in CreateIndices :
       config[calls[j].entry].Account_OID # config[calls[k].entry].Account_OID
          => calls[j].name # calls[k].name

\* C10 as amended: two entries with different Account OIDs of the same length,
\* both with a concatenation Account Name + '_' + Account OID of at most 31
\* characters, never receive the same destination group name.
C10_DistinctWhenUntruncated ==
    \A j, k \in CreateIndices :
       LET ej == calls[j].entry
           ek == calls[k].entry
       IN  ( /\ config[ej].Account_OID # config[ek].Account_OID
             /\ Len(config[ej].Account_OID) = Len(config[ek].Account_OID)
             /\ Len(FullName(ej)) <= 31
             /\ Len(FullName(ek)) <= 31 )
           => calls[j].name # calls[k].name

\* Two accounts of the same 24 character name and different OIDs, both
\* concatenations exactly 31 long, both created.
C10_Witness ==
    \E j, k \in CreateIndices :
       /\ j < k
       /\ config[calls[j].entry].Account_Name = config[calls[k].entry].Account_Name
       /\ config[calls[j].entry].Account_OID # config[calls[k].entry].Account_OID
       /\ Len(FullName(calls[j].entry)) = 31
       /\ Len(FullName(calls[k].entry)) = 31
       /\ calls[j].result /\ calls[k].result

----------------------------------------------------------------------------
(* C3 *)

\* A document has been obtained and the script is past its last decision.
Decided ==
    \/ pc \in { "import_mssp_config", "create_cc_group", "add_user_to_group" }
    \/ pc = "done" /\ exit.exited /\ exit.code = 0

\* C3 as claimed: once a document has been obtained, import_mssp_config is
\* invoked if and only if the destination address, username and password are
\* all present, whether or not --export-file was given.
C3_AsClaimed ==
    Decided => (invoked = 1 <=> CcArgsGiven(args))

\* C3 as amended: once a document has been obtained, import_mssp_config is
\* invoked (once) if and only if the destination address, username and
\* password are all given and non-empty and --export-file is not given (or is
\* empty); a document saved as a snapshot is never imported in the same run,
\* and when any of the three is missing no destination call is made.
C3_ImportIffCredentialsAndNoExportFile ==
    /\ invoked <= 1
    /\ Decided =>
          ( invoked = 1 <=>
               /\ args.cc_address \notin { None, "" }
               /\ args.cc_username \notin { None, "" }
               /\ args.cc_password \notin { None, "" }
               /\ args.export_file \in { None, "" } )
    /\ files # << >> => invoked = 0
    /\ ( \/ args.cc_address \in { None, "" }
         \/ args.cc_username \in { None, "" }
         \/ args.cc_password \in { None, "" } ) => CcCallIndices = {}

\* A live run that exported an account and, without --export-file, went on
\* to create its group on the destination.
C3_Witness ==
    /\ pc = "done"
    /\ ~args.import_from_file
    /\ invoked = 1
    /\ files = << >>
    /\ Len(config) > 0
    /\ CreateIndices # {}

----------------------------------------------------------------------------
(* C4 *)

\* C4: with --import-from-file and without --config-file the process exits
\* with code 1 and has made no call to the source or to the destination,
\* whatever the other arguments are.
C4_NoConfigFileExitsBeforeNetwork ==
    (args.import_from_file /\ args.config_file = None) =>
       /\ calls = << >>
       /\ files = << >>
       /\ invoked = 0
       /\ \/ pc = "start"
          \/ pc = "done" /\ exit = [exited |-> TRUE, code |-> 1]

\* The exit taken although every address and credential was given.
C4_Witness ==
    /\ pc = "done"
    /\ exit.exited
    /\ args.import_from_file
    /\ args.config_file = None
    /\ ~MsspArgsMissing(args)
    /\ CcArgsGiven(args)
    /\ args.export_file = None

----------------------------------------------------------------------------
(* C5 *)

\* The source login was called and failed: the POST raised, the status was
\* not 200, or the reply carried no sessionid cookie.
MsspLoginFailed ==
    \E j \in MsspCallIndices :
       /\ calls[j].op = "login"
       /\ \/ calls[j].raised
          \/ calls[j].status # 200
          \/ calls[j].sessionid = None

\* C5: in live mode, when the source authentication fails the run ends with
\* a non-zero exit status after that one call: no listing call, no snapshot
\* file, no destination call.
C5_SourceAuthFailureAborts ==
    (~args.import_from_file /\ MsspLoginFailed) =>
       /\ pc = "done"
       /\ exit.exited
       /\ exit.code # 0
       /\ Len(calls) = 1
       /\ files = << >>
       /\ invoked = 0

\* A login answered with a status other than 200 that carries a cookie, with
\* the destination credentials and an export file given.
C5_Witness ==
    /\ pc = "done"
    /\ ~args.import_from_file
    /\ Len(calls) = 1
    /\ IsMssp(calls[1], "login")
    /\ ~calls[1].raised
    /\ calls[1].status # 200
    /\ calls[1].sessionid \notin { None, "" }
    /\ CcArgsGiven(args)
    /\ args.export_file \notin { None, "" }

----------------------------------------------------------------------------
(* C6 *)

\* The priority reference over the set of roles.
RoleReference(S) ==
    IF "userAdmin" \in S THEN "MSSP_PORTAL_ADMIN"
    ELSE IF "basicUser" \in S THEN "MSSP_PORTAL_USER"
    ELSE IF "dashboardUser" \in S \/ "userViewer" \in S THEN "MSSP_PORTAL_VIEWER"
    ELSE None

\* C6: select_new_role returns, for every list of role strings, the value of
\* the priority reference: the admin identifier if userAdmin is present,
\* else the user identifier if basicUser is, else the viewer identifier if
\* dashboardUser or userViewer is, else None (the empty list included).
C6_SelectNewRoleIsPriorityReference ==
    pc = "done" =>
       /\ new_role = RoleReference(Range(current_roles))
       /\ new_role \in { "MSSP_PORTAL_ADMIN", "MSSP_PORTAL_USER",
                         "MSSP_PORTAL_VIEWER", None }

\* userAdmin listed last, after a viewer role and basicUser.
C6_Witness ==
    /\ pc = "done"
    /\ current_roles = << "userViewer", "basicUser", "userAdmin" >>
    /\ new_role = "MSSP_PORTAL_ADMIN"

----------------------------------------------------------------------------
(* C7 *)

\* The accounts fetch_all_accounts returned: the reply of a 200 answer.
SourceListing == IF listing.status = 200 THEN listing.reply ELSE << >>

CustomerIndices ==
    { i \in DOMAIN SourceListing : SourceListing[i].type = "CustomerAccount" }

\* The position in the export of the account at position i of the listing.
ExportPosition(i) == Cardinality({ j \in CustomerIndices : j <= i })

\* C7: build_structured_export returns exactly one entry for every account
\* of the source listing whose type is 'CustomerAccount', none for another
\* account, in the order of the listing; the entry is there, with an empty
\* Users (Assets) list, when no user of role 'user' is listed or the user
\* (asset) listing answers non-200.
C7_OneEntryPerCustomerAccount ==
    pc = "export_returned" =>
       /\ Len(all_accounts_info) = Cardinality(CustomerIndices)
       /\ \A i \in CustomerIndices :
             LET entry == all_accounts_info[ExportPosition(i)]
             IN  /\ entry.Account_OID = SourceListing[i].oid
                 /\ entry.Type = "CustomerAccount"
                 /\ entry.Account_Name =
                       IF SourceListing[i].name = None THEN "N/A"
                       ELSE SourceListing[i].name
       /\ \A j \in MsspCallIndices :
             /\ ( /\ calls[j].op = "fetch_users_for_account"
                  /\ ~calls[j].raised
                  /\ (calls[j].status # 200 \/ calls[j].matching = 0) )
                => all_accounts_info[calls[j].account].Users = << >>
             /\ ( /\ calls[j].op = "fetch_assets_for_account"
                  /\ ~calls[j].raised
                  /\ calls[j].status # 200 )
                => all_accounts_info[calls[j].account].Assets = << >>

\* A listing of three accounts, the second of another type; the first
\* customer's user listing answered 200 without a user of role 'user', the
\* other customer's asset and user listings answered non-200.
C7_Witness ==
    /\ pc = "export_returned"
    /\ listing.status = 200
    /\ Len(listing.reply) = 3
    /\ CustomerIndices = { 1, 3 }
    /\ Len(all_accounts_info) = 2
    /\ \E j, k, l \in MsspCallIndices :
          /\ calls[j].op = "fetch_users_for_account"
          /\ calls[j].account = 1
          /\ calls[j].status = 200
          /\ calls[j].matching = 0
          /\ calls[k].op = "fetch_users_for_account"
          /\ calls[k].account = 2
          /\ calls[k].status # 200
          /\ calls[l].op = "fetch_assets_for_account"
          /\ calls[l].account = 2
          /\ calls[l].status # 200

====
